---- MODULE Spec2Model ----
(***************************************************************************)
(* Model of rand's src/seq/mod.rs: gen_index (the uniform index generator) *)
(* and index::sample_array (Floyd's algorithm on a fixed-size array).      *)
(*                                                                         *)
(* Machine integers are kept at their real width.  A value of type usize,  *)
(* u32 or u64 is a tuple of four 16-bit limbs, least significant first:    *)
(* <<l0, l1, l2, l3>> stands for l0 + l1*2^16 + l2*2^32 + l3*2^48.  A u32   *)
(* (and a usize of a 32-bit target) has l2 = l3 = 0.                       *)
(*                                                                         *)
(* Array slots are numbered from 0 as in the source; slot k of `indices`   *)
(* is indices[k + 1] of the TLA+ sequence.                                 *)
(***************************************************************************)
EXTENDS Integers, Sequences, FiniteSets

VARIABLES
    ptr,      \* target_pointer_width of the build: 32 or 64
    checks,   \* whether the build has overflow checks (debug) or wraps (release)
    len,      \* argument `len`
    N,        \* const generic `N`
    pc,       \* "call", "loop", "done" or "panic"
    ret,      \* "pending", "None" or "Some" (the array is `indices`)
    indices,  \* the array `indices`
    i,        \* the enumerate() count: slots 0..i are filled
    j,        \* the next candidate: the start of what is left of len - N..len
    calls,    \* the gen_index calls made: the bound passed, the value returned
    draws,    \* the gen_range calls made on rng: width, range end, value drawn
    panic     \* why the call panicked, or "none"

vars == <<ptr, checks, len, N, pc, ret, indices, i, j, calls, draws, panic>>

\* ---------------------------------------------------------------- bounds

\* Largest const generic N explored with a small length.
MaxN == 5
\* Largest const generic N explored with a length beyond MaxSmall.
MaxBigN == 3
\* Lengths 0..MaxSmall are explored with every draw of every range.
MaxSmall == 5
\* How many values on each side of 2^32, below usize::MAX and at each end of
\* a large draw range are explored.
Near == 2

\* ------------------------------------------------- fixed-width arithmetic

\* One limb holds 16 bits.
LimbBase == 2^16
NLimbs == 1..4

\* The limbs of a number n < 2^31.
Lit(n) == <<n % LimbBase, (n \div LimbBase) % LimbBase, 0, 0>>

\* The number a value below 2^31 stands for.
Num(v) == v[1] + v[2] * LimbBase

\* Whether the value fits a TLC integer (below 2^31).
IsSmallVal(v) == v[3] = 0 /\ v[4] = 0 /\ v[2] < 2^15

\* An `as` cast to an unsigned type of `bits` bits: keeps the low bits.
CastTo(bits, v) == [k \in NLimbs |-> IF k * 16 <= bits THEN v[k] ELSE 0]

\* The largest value of an unsigned type of `bits` bits.
MaxOf(bits) == [k \in NLimbs |-> IF k * 16 <= bits THEN LimbBase - 1 ELSE 0]

\* a < b, a <= b on unsigned values.
Lt(a, b) ==
    \E k \in NLimbs : a[k] < b[k] /\ \A m \in NLimbs : m > k => a[m] = b[m]

Le(a, b) == a = b \/ Lt(a, b)

\* a + b over 64 bits, with the carry out of bit 64.
AddWide(a, b) ==
    LET s1 == a[1] + b[1]
        s2 == a[2] + b[2] + s1 \div LimbBase
        s3 == a[3] + b[3] + s2 \div LimbBase
        s4 == a[4] + b[4] + s3 \div LimbBase
    IN  [val |-> <<s1 % LimbBase, s2 % LimbBase, s3 % LimbBase, s4 % LimbBase>>,
         carry |-> s4 \div LimbBase]

\* a - b over 64 bits (two's complement), with the borrow.
SubWide(a, b) ==
    LET d1 == a[1] - b[1]
        b1 == IF d1 < 0 THEN 1 ELSE 0
        d2 == a[2] - b[2] - b1
        b2 == IF d2 < 0 THEN 1 ELSE 0
        d3 == a[3] - b[3] - b2
        b3 == IF d3 < 0 THEN 1 ELSE 0
        d4 == a[4] - b[4] - b3
        b4 == IF d4 < 0 THEN 1 ELSE 0
    IN  [val |-> <<d1 % LimbBase, d2 % LimbBase, d3 % LimbBase, d4 % LimbBase>>,
         borrow |-> b4]

\* usize `a + b` on a target of `bits` bits: the wrapped sum, and whether the
\* mathematical sum does not fit (a panic with overflow checks, a wrap without).
UsizeAdd(bits, a, b) ==
    LET s == AddWide(a, b)
    IN  [val |-> CastTo(bits, s.val),
         overflow |-> s.carry = 1 \/ CastTo(bits, s.val) # s.val]

\* usize `a - b` on a target of `bits` bits.
UsizeSub(bits, a, b) ==
    LET d == SubWide(a, b)
    IN  [val |-> CastTo(bits, d.val), overflow |-> d.borrow = 1]

\* ------------------------------------------------------------- gen_index

\* u32::MAX as usize, on a target whose usize has `ptr` bits.
U32MaxAsUsize(bits) == CastTo(bits, MaxOf(32))

\* Mutant of FitsU32: the test written with < instead of <=.
FitsU32_Strict(bits, ubound) == Lt(ubound, U32MaxAsUsize(bits))

\* The test of line 53: ubound <= (u32::MAX as usize).
FitsU32(bits, ubound) == Le(ubound, U32MaxAsUsize(bits))

\* rng.gen_range(0..end) panics on an empty range ("cannot sample empty range").
RangeIsEmpty(end) == ~Lt(Lit(0), end)

\* Mutant of GenIndexRequest: the width of the draw follows the target's
\* pointer width instead of the value of the bound.
GenIndexRequest_Native(bits, ubound) ==
    IF bits = 32
    THEN [kind |-> "draw", width |-> 32, end |-> CastTo(32, ubound)]
    ELSE [kind |-> "draw", width |-> 64, end |-> CastTo(64, ubound)]

\* What gen_index(rng, ubound) asks of the source on a target of `ptr` bits:
\* a draw of `width` bits over 0..end, or the unreachable!() of the 32-bit build.
GenIndexRequest(bits, ubound) ==
    IF FitsU32(bits, ubound)
    THEN [kind |-> "draw", width |-> 32, end |-> CastTo(32, ubound)]
    ELSE IF bits = 32
         THEN [kind |-> "unreachable", width |-> 0, end |-> Lit(0)]
         ELSE [kind |-> "draw", width |-> 64, end |-> CastTo(64, ubound)]

\* Mutant of GenIndexReturn: the value drawn is narrowed to 32 bits.
GenIndexReturn_Narrow(bits, value) == CastTo(bits, CastTo(32, value))

\* What gen_index returns for the drawn value: `... as usize`.
GenIndexReturn(bits, value) == CastTo(bits, value)

\* ---------------------------------------------------------- sample_array

\* Mutant of Position: the scan starts at slot 1 and misses slot 0.
Position_SkipFirst(prefix, t) ==
    IF \E p \in 2..Len(prefix) : prefix[p] = t
    THEN CHOOSE p \in 2..Len(prefix) :
             prefix[p] = t /\ \A q \in 2..(p - 1) : prefix[q] # t
    ELSE 0

\* indices[0..i].iter().position(|&x| x == t): the first slot of the prefix
\* holding t, as a TLA+ index (slot + 1), or 0 for None.
Position(prefix, t) ==
    IF \E p \in 1..Len(prefix) : prefix[p] = t
    THEN CHOOSE p \in 1..Len(prefix) :
             prefix[p] = t /\ \A q \in 1..(p - 1) : prefix[q] # t
    ELSE 0

\* Mutant of FloydStep: a collision is ignored, the matched slot keeps t.
FloydStep_NoMove(arr, slot, cand, t) == [arr EXCEPT ![slot + 1] = t]

\* Mutant of FloydStep: Floyd's set insertion, without the move: on a
\* collision the current slot takes j and the matched slot keeps t.
FloydStep_Plain(arr, slot, cand, t) ==
    IF \E p \in 1..slot : arr[p] = t
    THEN [arr EXCEPT ![slot + 1] = cand]
    ELSE [arr EXCEPT ![slot + 1] = t]

\* Mutant of FloydStep: the current slot is assigned only when there was no
\* collision (line 95 moved into an else branch).
FloydStep_ElseStore(arr, slot, cand, t) ==
    IF \E p \in 1..slot : arr[p] = t
    THEN [arr EXCEPT ![CHOOSE p \in 1..slot : arr[p] = t] = cand]
    ELSE [arr EXCEPT ![slot + 1] = t]

\* Lines 92-95: the collision rule of one iteration with slot i, candidate j
\* and draw t.
FloydStep(arr, slot, cand, t) ==
    LET pos == Position(SubSeq(arr, 1, slot), t)
        moved == IF pos # 0 THEN [arr EXCEPT ![pos] = cand] ELSE arr
    IN  [moved EXCEPT ![slot + 1] = t]

\* Mutant of TooMany: the test written with >= instead of >.
TooMany_Ge(n, ln) == Le(ln, Lit(n))

\* The test of line 84: N > len.
TooMany(n, ln) == Lt(ln, Lit(n))

\* The state of a call that stopped in a panic.
Panicked(m, why) == [m EXCEPT !.pc = "panic", !.panic = why]

\* Lines 84-90 up to the first iterator step: the early return, the zeroed
\* array and the range len - N..len.  `checks` is whether the build has
\* overflow checks (a failed check panics, otherwise the arithmetic wraps).
Enter(bits, oc, ln, n) ==
    LET fresh == [pc |-> "loop", ret |-> "pending", indices |-> <<>>, i |-> 0,
                  j |-> Lit(0), calls |-> <<>>, draws |-> <<>>, panic |-> "none"]
        start == UsizeSub(bits, ln, Lit(n))
    IN  IF TooMany(n, ln)
        THEN [fresh EXCEPT !.pc = "done", !.ret = "None"]
        ELSE IF start.overflow /\ oc
             THEN Panicked(fresh, "overflow")
             ELSE [fresh EXCEPT !.indices = [k \in 1..n |-> Lit(0)],
                                !.j = start.val]

\* Whether the iterator of line 90 yields another (i, j).
HasNext(m, ln) == m.pc = "loop" /\ Lt(m.j, ln)

\* Mutant of Bound: the candidate itself is passed, the draw is over 0..j.
Bound_Candidate(bits, cand) == [val |-> cand, overflow |-> FALSE]

\* Mutant of Bound: j + 2 is passed, the draw is over 0..j + 2.
Bound_Wide(bits, cand) == UsizeAdd(bits, cand, Lit(2))

\* The bound of line 91: j + 1.
Bound(bits, cand) == UsizeAdd(bits, cand, Lit(1))

\* What the call asks of the source in the iteration with candidate m.j:
\* a draw, or a panic before any draw.
Request(bits, oc, m) ==
    LET u == Bound(bits, m.j)
        g == GenIndexRequest(bits, u.val)
    IN  IF u.overflow /\ oc
        THEN [kind |-> "overflow", width |-> 0, end |-> Lit(0)]
        ELSE IF g.kind = "draw" /\ RangeIsEmpty(g.end)
             THEN [kind |-> "empty range", width |-> 0, end |-> Lit(0)]
             ELSE g

\* Lines 90-96: one iteration, the source answering `value` to the request.
Iteration(bits, oc, m, value) ==
    LET q == Request(bits, oc, m)
        u == Bound(bits, m.j)
        t == GenIndexReturn(bits, value)
    IN  IF q.kind # "draw"
        THEN Panicked(m, q.kind)
        ELSE [m EXCEPT
                 !.draws = Append(@, [width |-> q.width, end |-> q.end,
                                      value |-> value]),
                 !.calls = Append(@, [ubound |-> u.val, ret |-> t]),
                 !.indices = FloydStep(@, m.i, m.j, t),
                 !.i = @ + 1,
                 !.j = UsizeAdd(bits, @, Lit(1)).val]

\* Line 97: the loop is over.
Finish(m) == [m EXCEPT !.pc = "done", !.ret = "Some"]

\* The whole call as a function of the values the source returns, in order.
RECURSIVE Drive(_, _, _, _, _)
Drive(bits, oc, ln, m, values) ==
    IF m.pc # "loop" THEN m
    ELSE IF ~HasNext(m, ln) THEN Finish(m)
    ELSE IF Request(bits, oc, m).kind # "draw"
         THEN Iteration(bits, oc, m, Lit(0))
    ELSE IF values = <<>> THEN m
    ELSE Drive(bits, oc, ln, Iteration(bits, oc, m, Head(values)),
               Tail(values))

SampleArray(bits, oc, ln, n, values) ==
    Drive(bits, oc, ln, Enter(bits, oc, ln, n), values)

\* ------------------------------------------------------------- the inputs

\* The pointer widths the source is built for (lines 56 and 59).
Targets == {32, 64}

\* a - k and a + k for a small k, without wrapping.
Minus(a, k) == SubWide(a, Lit(k)).val
Plus(a, k) == AddWide(a, Lit(k)).val

\* The lengths explored on a target: the small ones, the ones up to
\* usize::MAX and, where usize is wider than 32 bits, those around 2^32.
Lens(p) ==
    {Lit(n) : n \in 0..MaxSmall}
    \cup {Minus(MaxOf(p), k) : k \in 0..(Near - 1)}
    \cup (IF p = 32 THEN {}
          ELSE {Minus(MaxOf(32), k) : k \in 0..(Near - 1)}
               \cup {Plus(MaxOf(32), k) : k \in 1..Near})

\* Whether a length is one of the small ones.
IsSmallLen(ln) == IsSmallVal(ln) /\ Num(ln) <= MaxSmall

\* The array sizes explored with a length.
Sizes(ln) == IF IsSmallLen(ln) THEN 0..MaxN ELSE 0..MaxBigN

\* The values of 0..end the source is made to return: all of them for a
\* small range, the Near lowest and the Near highest for a large one.
DrawSet(end) ==
    IF IsSmallVal(end) /\ Num(end) <= MaxSmall
    THEN {Lit(n) : n \in 0..(Num(end) - 1)}
    ELSE {Lit(n) : n \in 0..(Near - 1)} \cup {Minus(end, k) : k \in 1..Near}

\* ------------------------------------------------------ the state machine

\* The call's state as the record the operators above work on.
Cur == [pc |-> pc, ret |-> ret, indices |-> indices, i |-> i, j |-> j,
        calls |-> calls, draws |-> draws, panic |-> panic]

Install(m) ==
    /\ pc' = m.pc
    /\ ret' = m.ret
    /\ indices' = m.indices
    /\ i' = m.i
    /\ j' = m.j
    /\ calls' = m.calls
    /\ draws' = m.draws
    /\ panic' = m.panic
    /\ UNCHANGED <<ptr, checks, len, N>>

Init ==
    /\ ptr \in Targets
    /\ checks \in BOOLEAN
    /\ len \in Lens(ptr)
    /\ N \in Sizes(len)
    /\ pc = "call"
    /\ ret = "pending"
    /\ indices = <<>>
    /\ i = 0
    /\ j = Lit(0)
    /\ calls = <<>>
    /\ draws = <<>>
    /\ panic = "none"

\* sample_array::<_, N>(rng, len) is entered.
Call ==
    /\ pc = "call"
    /\ Install(Enter(ptr, checks, len, N))

\* One iteration of the for loop; the source picks the value of the draw.
Iterate ==
    /\ HasNext(Cur, len)
    /\ LET q == Request(ptr, checks, Cur)
       IN  IF q.kind = "draw"
           THEN \E value \in DrawSet(q.end) :
                    Install(Iteration(ptr, checks, Cur, value))
           ELSE Install(Iteration(ptr, checks, Cur, Lit(0)))

\* The iterator is exhausted: Some(indices).
Return ==
    /\ pc = "loop"
    /\ ~HasNext(Cur, len)
    /\ Install(Finish(Cur))

Next == Call \/ Iterate \/ Return

Spec == Init /\ [][Next]_vars

\* ------------------------------------------------- vocabulary of the claims

\* The values the source has returned so far, in order.
Drawn == [k \in 1..Len(draws) |-> draws[k].value]

\* The call is feasible: N <= len.
Feasible == Le(Lit(N), len)

\* The call has returned Some(indices).
ReturnedSome == pc = "done" /\ ret = "Some"

Distinct(s) == \A a, b \in 1..Len(s) : a # b => s[a] # s[b]

\* Some iteration so far found its draw in the filled prefix (a value once
\* drawn stays in the array, so a repeated draw is a collision).
Collided == \E k \in 1..Len(calls) : \E m \in (k + 1)..Len(calls) :
                calls[m].ret = calls[k].ret

\* len - N + k, where N <= len and the sum fits 64 bits.
Candidate(k) == Plus(Minus(len, N), k)

\* C1: for N <= len the call never panics, and when it has returned it has
\* returned Some array of exactly N pairwise distinct entries, each below len
\* (for N = 0 the empty array, whatever len is).
C1_SomeDistinctInRange ==
    Feasible =>
        /\ pc # "panic"
        /\ pc = "done" =>
            /\ ret = "Some"
            /\ Len(indices) = N
            /\ Distinct(indices)
            /\ \A k \in 1..N : Le(Lit(0), indices[k]) /\ Lt(indices[k], len)

\* A call with the largest N on the largest length has returned after a
\* collision.
C1_Witness ==
    ReturnedSome /\ N = MaxBigN /\ len = MaxOf(ptr) /\ Collided

\* A call with N = 0 and len = 0 has returned.
C1_WitnessEmpty == ReturnedSome /\ N = 0 /\ len = Lit(0) /\ indices = <<>>

\* C2: the call returns None exactly when N > len, and then it has made no
\* gen_index call and no draw on the source.
C2_NoneIffTooMany ==
    /\ pc \in {"done", "panic"} => (ret = "None" <=> ~Feasible)
    /\ (~Feasible /\ pc # "call") =>
           pc = "done" /\ ret = "None" /\ draws = <<>> /\ calls = <<>>

\* len = 3, N = 5 has returned None without a draw.
C2_Witness ==
    pc = "done" /\ len = Lit(3) /\ N = 5 /\ ret = "None" /\ draws = <<>>

\* Every sequence of draws a call with N = n on a length with len - N = lo can
\* see: the k-th draw (from 1) is one of 0..lo + k - 1.
RECURSIVE DrawSeqs(_, _)
DrawSeqs(lo, n) ==
    IF n = 0 THEN {<<>>}
    ELSE {Append(q, Lit(t)) : q \in DrawSeqs(lo, n - 1), t \in 0..(lo + n - 1)}

\* Every sequence of n pairwise distinct values of 0..l - 1.
RECURSIVE OrderedDistinct(_, _)
OrderedDistinct(l, n) ==
    IF n = 0 THEN {<<>>}
    ELSE UNION {{Append(q, Lit(x)) :
                    x \in {y \in 0..(l - 1) :
                              \A k \in 1..Len(q) : q[k] # Lit(y)}} :
                q \in OrderedDistinct(l, n - 1)}

\* The arrays the call returns over all the draw sequences of its (len, N).
Image ==
    {SampleArray(ptr, checks, len, N, q).indices :
        q \in DrawSeqs(Num(len) - N, N)}

\* C3: for a small len and N <= len the map from draw sequences to returned
\* arrays is a bijection onto the ordered sequences of N distinct values of
\* 0..len - 1: every such sequence is returned, by exactly one draw sequence;
\* and the array a finished call returns is the one this map gives for the
\* draws it made.
C3_DrawsToArraysBijective ==
    (IsSmallLen(len) /\ Feasible) =>
        /\ pc = "call" =>
            LET image == Image
            IN  /\ image = OrderedDistinct(Num(len), N)
                /\ Cardinality(image) = Cardinality(DrawSeqs(Num(len) - N, N))
        /\ pc = "done" =>
            /\ Len(Drawn) = N
            /\ \A k \in 1..N : Lt(Drawn[k], Lit(Num(len) - N + k))
            /\ SampleArray(ptr, checks, len, N, Drawn).indices = indices

\* len = 4, N = 2: there are 12 draw sequences and 12 returned arrays, and a
\* call has returned one of them after a collision.
C3_Witness ==
    /\ ReturnedSome /\ len = Lit(4) /\ N = 2 /\ Collided
    /\ Cardinality(Image) = 12
    /\ Cardinality(DrawSeqs(2, 2)) = 12

\* C4: with N = len the entries of the returned array are, as a set, exactly
\* 0..len - 1.
C4_FullPermutation ==
    (pc = "done" /\ Lit(N) = len) =>
        /\ ret = "Some"
        /\ {indices[k] : k \in 1..Len(indices)} = {Lit(x) : x \in 0..(N - 1)}

\* A call with N = len = 5 has returned after a collision.
C4_Witness == ReturnedSome /\ N = 5 /\ len = Lit(5) /\ Collided

\* The other pointer width.
OtherTarget == IF ptr = 32 THEN 64 ELSE 32

\* C5: for len <= 2^32 - 1, the same call made on the target of the other
\* pointer width (with or without overflow checks), the source returning the
\* same values, has issued the same draw requests (width, range, order) and
\* ended the same way: same array, same result.
C5_CrossWidthReproducible ==
    (pc \in {"done", "panic"} /\ Le(len, MaxOf(32))) =>
        \A oc \in BOOLEAN :
            LET o == SampleArray(OtherTarget, oc, len, N, Drawn)
            IN  /\ o.draws = draws
                /\ o.calls = calls
                /\ o.indices = indices
                /\ o.ret = ret
                /\ o.pc = pc

\* A 64-bit call on len = 2^32 - 1, the largest length a 32-bit target has,
\* has returned after a collision.
C5_Witness ==
    ReturnedSome /\ ptr = 64 /\ len = MaxOf(32) /\ N = MaxBigN /\ Collided

\* C6: every gen_index call made one draw, over exactly 0..ubound, of 32 bits
\* when ubound <= 2^32 - 1 and of 64 bits otherwise, and returned the value
\* drawn, which is below ubound; every bound passed is at least 1.
C6_GenIndexOneExactDraw ==
    /\ Len(calls) = Len(draws)
    /\ Len(calls) = i
    /\ \A k \in 1..Len(calls) :
        /\ Le(Lit(1), calls[k].ubound)
        /\ draws[k].end = calls[k].ubound
        /\ draws[k].width = (IF Le(calls[k].ubound, MaxOf(32)) THEN 32 ELSE 64)
        /\ calls[k].ret = draws[k].value
        /\ Lt(calls[k].ret, calls[k].ubound)

\* A 64-bit draw returned a value that does not fit 32 bits.
C6_Witness ==
    \E k \in 1..Len(calls) :
        /\ draws[k].width = 64
        /\ Lt(MaxOf(32), calls[k].ret)
        /\ \E m \in 1..Len(calls) : draws[m].width = 32

\* C7: a 32-bit build never reaches unreachable!(), and a 64-bit draw is made
\* only by a 64-bit build for a bound above 2^32 - 1.
C7_UnreachableNeverReached ==
    /\ ptr = 32 => panic # "unreachable"
    /\ \A k \in 1..Len(draws) :
           draws[k].width = 64 => (ptr = 64 /\ Lt(MaxOf(32), calls[k].ubound))

\* A 32-bit build was asked for the bound usize::MAX and has returned.
C7_Witness ==
    /\ ReturnedSome /\ ptr = 32 /\ len = MaxOf(32) /\ N = MaxBigN
    /\ calls[N].ubound = MaxOf(32)

\* What C8 says of a state the call goes on from: the k-th gen_index call
\* (k from 0) was passed len - N + k + 1, which lies in 1..len; no more than N
\* calls were made; and an iteration that is due makes its draw, on a range
\* that is not empty (no overflow check fails, nothing else panics).
BoundsAscending ==
    Feasible =>
        /\ pc # "panic"
        /\ Len(calls) <= N
        /\ \A k \in 1..Len(calls) :
            /\ calls[k].ubound = Candidate(k)
            /\ Le(Lit(1), calls[k].ubound)
            /\ Le(calls[k].ubound, len)
        /\ HasNext(Cur, len) => Request(ptr, checks, Cur).kind = "draw"
        /\ (pc = "loop" /\ ~HasNext(Cur, len)) => Len(calls) = N

\* What C8 says of a state a step leads to: it is no panic, and a call that
\* has returned has made exactly N gen_index calls and N draws.
Arrived ==
    Feasible =>
        /\ pc # "panic"
        /\ pc = "done" => Len(calls) = N /\ Len(draws) = N

\* How far the call has got: 0 before it, 1 + i in the loop, N + 2 after it.
Rank == IF pc = "call" THEN 0 ELSE IF pc = "loop" THEN 1 + i ELSE N + 2

\* C8: for N <= len the generator is called N times, the k-th call with bound
\* len - N + k + 1 in 1..len, and nothing overflows; the call terminates:
\* every step takes it further, at most N + 2 steps far, and it stops only
\* with its return.  (Every state but the last is the first state of a step;
\* the last state is the second state of the Return step, which leaves the
\* calls as they were.)
C8_NCallsAscendingBounds ==
    [][BoundsAscending /\ Arrived' /\ Rank < Rank' /\ Rank' <= N + 2]_vars

\* A call on len = usize::MAX of a 64-bit target has returned: its last bound
\* was usize::MAX.
C8_Witness ==
    /\ ReturnedSome /\ ptr = 64 /\ len = MaxOf(64) /\ N = MaxBigN
    /\ calls[N].ubound = MaxOf(64)

\* What C9 says of one iteration, with slot i, candidate j and draw t: a slot
\* of the filled prefix holding t now holds j, slot i holds t, and every other
\* slot is as it was.
CollisionRule ==
    (pc = "loop" /\ pc' = "loop" /\ i' = i + 1) =>
        LET t == calls'[i'].ret
        IN  /\ Len(indices') = N
            /\ indices'[i + 1] = t
            /\ \A k \in 1..i : indices[k] = t => indices'[k] = j
            /\ \A k \in 1..N :
                   (k # i + 1 /\ ~(k <= i /\ indices[k] = t)) =>
                       indices'[k] = indices[k]

\* len = 5, N = 3 and the draws 1, 1, 2 return [3, 1, 2].
Scenario513 ==
    (pc = "done" /\ len = Lit(5) /\ N = 3
        /\ Drawn = <<Lit(1), Lit(1), Lit(2)>>) =>
        /\ ret = "Some"
        /\ indices = <<Lit(3), Lit(1), Lit(2)>>
        /\ [k \in 1..3 |-> calls[k].ubound] = <<Lit(3), Lit(4), Lit(5)>>

\* C9: every iteration follows the collision rule, and len = 5, N = 3 with
\* the draws 1, 1, 2 against the bounds 3, 4, 5 returns [3, 1, 2].
C9_CollisionRule == [][CollisionRule /\ Scenario513']_vars

\* The call of the scenario has returned [3, 1, 2].
C9_Witness ==
    /\ ReturnedSome /\ len = Lit(5) /\ N = 3
    /\ Drawn = <<Lit(1), Lit(1), Lit(2)>>
    /\ indices = <<Lit(3), Lit(1), Lit(2)>>

\* C10: in the loop and after it, with k = i iterations done: slots 0..k hold
\* pairwise distinct values, all below the next candidate j = len - N + k;
\* slots k..N hold 0; so a draw equals at most one filled slot and j equals
\* none.
C10_LoopInvariant ==
    (pc = "loop" \/ ReturnedSome) =>
        /\ i <= N
        /\ Len(indices) = N
        /\ j = Candidate(i)
        /\ Distinct(SubSeq(indices, 1, i))
        /\ \A k \in 1..i : Lt(indices[k], j)
        /\ \A k \in (i + 1)..N : indices[k] = Lit(0)
        /\ \A v \in DrawSet(Bound(ptr, j).val) :
               Cardinality({k \in 1..i : indices[k] = v}) <= 1
        /\ \A k \in 1..i : indices[k] # j

\* The loop is under way after a collision: a filled slot holds an earlier
\* candidate, and a slot is still to fill.
C10_Witness ==
    /\ pc = "loop" /\ 0 < i /\ i < N /\ Collided
    /\ \E k \in 1..i : indices[k] = Candidate(i - 1)

====
